---- MODULE Spec2Model ----
(***************************************************************************)
(* State-machine model of scripts/generate_sample_data.py: the module-level *)
(* imports, generate_sample_data() and the __main__ exception dispatch,     *)
(* run repeatedly as a process against a persistent filesystem.             *)
(***************************************************************************)
EXTENDS Integers, Sequences, FiniteSets, TLC

VARIABLES
    pc,          \* position of the running process in the script
    scriptFile,  \* __file__, as a sequence of path components
    fs,          \* filesystem: the data directory and the output file
    data,        \* local `data` (ordered dict: sequence of columns)
    df,          \* local `df`
    table,       \* local `table`
    output_file, \* local `output_file` (path components)
    stdout,      \* lines printed to standard output
    stderr,      \* lines printed to standard error by the interpreter
    exc,         \* exception in flight
    ret,         \* value returned by generate_sample_data()
    exitStatus,  \* process exit status, -1 while running
    steps,       \* generation steps attempted by this process, in order
    runs,        \* number of processes started so far
    runlog       \* outcome of every finished process, in order

vars == <<pc, scriptFile, fs, data, df, table, output_file, stdout, stderr,
          exc, ret, exitStatus, steps, runs, runlog>>

\* ------------------------------------------------------------------ bounds
MaxRuns == 2

\* ------------------------------------------------------------- exceptions
NoExc == [cls |-> "None", msg |-> ""]

\* Method resolution order of the exception classes that occur.
Mro(cls) ==
    CASE cls = "ModuleNotFoundError" ->
             {"ModuleNotFoundError", "ImportError", "Exception", "BaseException"}
      [] cls = "ImportError" -> {"ImportError", "Exception", "BaseException"}
      [] cls = "FileExistsError" ->
             {"FileExistsError", "OSError", "Exception", "BaseException"}
      [] cls = "PermissionError" ->
             {"PermissionError", "OSError", "Exception", "BaseException"}
      [] cls = "IsADirectoryError" ->
             {"IsADirectoryError", "OSError", "Exception", "BaseException"}
      [] cls = "OSError" -> {"OSError", "Exception", "BaseException"}
      [] cls = "ValueError" -> {"ValueError", "Exception", "BaseException"}
      [] cls = "MemoryError" -> {"MemoryError", "Exception", "BaseException"}
      [] OTHER -> {"BaseException"}

IsInstance(e, cls) == e.cls # "None" /\ cls \in Mro(e.cls)

\* ------------------------------------------------------------------ paths
\* pathlib.Path.parent
Parent(p) == SubSeq(p, 1, Len(p) - 1)

\* pathlib.Path.__truediv__
Div(p, name) == Append(p, name)

RECURSIVE PathStr(_)
\* str(Path) of an absolute POSIX path
PathStr(p) == IF p = <<>> THEN "" ELSE PathStr(Parent(p)) \o "/" \o p[Len(p)]

\* ------------------------------------------------------------- formatting
DigitChar(d) == <<"0", "1", "2", "3", "4", "5", "6", "7", "8", "9">>[d + 1]

RECURSIVE IntStr(_)
\* str(int) of a non-negative integer, as used by f"{n}"
IntStr(n) == IF n < 10 THEN DigitChar(n)
             ELSE IntStr(n \div 10) \o DigitChar(n % 10)

RECURSIVE ZeroPad(_, _, _)
ZeroPad(s, len, width) ==
    IF len >= width THEN s ELSE ZeroPad("0" \o s, len + 1, width)

RECURSIVE NumDigits(_)
NumDigits(n) == IF n < 10 THEN 1 ELSE 1 + NumDigits(n \div 10)

\* As Fmt04d with the width of the format specification one short.
Fmt03d(i) == ZeroPad(IntStr(i), NumDigits(i), 3)

\* format(i, "04d"): decimal, zero-padded on the left to a minimum width of 4
Fmt04d(i) == ZeroPad(IntStr(i), NumDigits(i), 4)

\* range(a, b)
Range(a, b) == [k \in 1..(IF b > a THEN b - a ELSE 0) |-> a + k - 1]

\* ------------------------------------------------------ the literal data
\* 'customer_id': [f'CUST{i:04d}' for i in range(1, 21)]
customer_id == [k \in DOMAIN Range(1, 21) |-> "CUST" \o Fmt04d(Range(1, 21)[k])]

customer_name ==
    << "Alice Johnson", "Bob Smith", "Charlie Brown", "Diana Prince", "Eve Wilson",
       "Frank Miller", "Grace Lee", "Henry Davis", "Ivy Chen", "Jack Taylor",
       "Karen White", "Liam O'Brien", "Mia Garcia", "Noah Martinez", "Olivia Anderson",
       "Paul Thompson", "Quinn Jackson", "Rachel Green", "Sam Wilson", "Tina Brown" >>

customer_email ==
    << "alice.j@example.com", "bob.smith@example.com", "charlie.b@example.com",
       "diana.p@example.com", "eve.w@example.com", "frank.m@example.com",
       "grace.lee@example.com", "henry.d@example.com", "ivy.chen@example.com",
       "jack.t@example.com", "karen.w@example.com", "liam.ob@example.com",
       "mia.g@example.com", "noah.m@example.com", "olivia.a@example.com",
       "paul.t@example.com", "quinn.j@example.com", "rachel.g@example.com",
       "sam.w@example.com", "tina.b@example.com" >>

ssn ==
    << "123-45-6789", "234-56-7890", "345-67-8901", "456-78-9012", "567-89-0123",
       "678-90-1234", "789-01-2345", "890-12-3456", "901-23-4567", "012-34-5678",
       "111-22-3333", "222-33-4444", "333-44-5555", "444-55-6666", "555-66-7777",
       "666-77-8888", "777-88-9999", "888-99-0000", "999-00-1111", "000-11-2222" >>

\* The list as its comments describe it: the mixed tail one APAC short.
sales_region_as_commented ==
    << "APAC", "APAC", "APAC", "APAC", "APAC",
       "EMEA", "EMEA", "EMEA", "EMEA", "EMEA",
       "AMER", "AMER", "AMER", "AMER", "AMER",
       "APAC", "EMEA", "EMEA", "AMER", "APAC" >>

\* The list with a region outside the three that are counted.
sales_region_with_other ==
    << "APAC", "APAC", "APAC", "APAC", "APAC",
       "EMEA", "EMEA", "EMEA", "EMEA", "EMEA",
       "AMER", "AMER", "AMER", "AMER", "AMER",
       "APAC", "APAC", "EMEA", "LATAM", "APAC" >>

sales_region ==
    << "APAC", "APAC", "APAC", "APAC", "APAC",
       "EMEA", "EMEA", "EMEA", "EMEA", "EMEA",
       "AMER", "AMER", "AMER", "AMER", "AMER",
       "APAC", "APAC", "EMEA", "AMER", "APAC" >>

\* The float literals, held in hundredths (1250.50 is 125050).
sales_amount ==
    << 125050, 230075, 189025, 320000, 145030,
       210000, 175050, 290025, 165075, 240000,
       195050, 280025, 155075, 310000, 220050,
       185025, 260075, 140000, 270050, 190025 >>

sale_date ==
    << "2024-01-15", "2024-01-16", "2024-01-17", "2024-01-18", "2024-01-19",
       "2024-02-10", "2024-02-11", "2024-02-12", "2024-02-13", "2024-02-14",
       "2024-03-05", "2024-03-06", "2024-03-07", "2024-03-08", "2024-03-09",
       "2024-04-20", "2024-04-21", "2024-04-22", "2024-04-23", "2024-04-24" >>

\* The dict literal `data`: keys in insertion order, each with the Python
\* type of its elements and its list.
DataLiteral ==
    << [name |-> "customer_id",    pytype |-> "str",   values |-> customer_id],
       [name |-> "customer_name",  pytype |-> "str",   values |-> customer_name],
       [name |-> "customer_email", pytype |-> "str",   values |-> customer_email],
       [name |-> "ssn",            pytype |-> "str",   values |-> ssn],
       [name |-> "sales_region",   pytype |-> "str",   values |-> sales_region],
       [name |-> "sales_amount",   pytype |-> "float", values |-> sales_amount],
       [name |-> "sale_date",      pytype |-> "str",   values |-> sale_date] >>

\* ------------------------------------------------- pandas / pyarrow calls
NoValue == [kind |-> "none"]

ColumnLengths(d) == {Len(d[c].values) : c \in DOMAIN d}

\* pd.DataFrame(dict of lists): the lists must have one common length.
DataFrameFails(d) == Cardinality(ColumnLengths(d)) > 1

DataFrame(d) ==
    [kind    |-> "DataFrame",
     columns |-> d,
     nrows   |-> IF d = <<>> THEN 0 ELSE Len(d[1].values)]

\* len(df)
DfLen(frame) == frame.nrows

\* df[name]
DfColumn(frame, name) ==
    LET c == CHOOSE c \in DOMAIN frame.columns : frame.columns[c].name = name
    IN  frame.columns[c].values

RECURSIVE KeepRows(_, _)
\* The elements of a list at the positions where the boolean mask is true.
KeepRows(values, mask) ==
    IF values = <<>> THEN <<>>
    ELSE LET rest == KeepRows(Tail(values), Tail(mask))
         IN  IF Head(mask) THEN <<Head(values)>> \o rest ELSE rest

\* df[df[name] == value]
DfWhereEq(frame, name, value) ==
    LET col  == DfColumn(frame, name)
        mask == [i \in DOMAIN col |-> col[i] = value]
        kept == [c \in DOMAIN frame.columns |->
                    [frame.columns[c] EXCEPT
                        !.values = KeepRows(frame.columns[c].values, mask)]]
    IN  [kind |-> "DataFrame", columns |-> kept,
         nrows |-> Len(KeepRows(col, mask))]

\* len(df[df['sales_region'] == region])
RegionCount(frame, region) == DfLen(DfWhereEq(frame, "sales_region", region))

ArrowType(pytype) == IF pytype = "float" THEN "double" ELSE "string"

\* from_pandas with preserve_index=True: the index becomes a column.
FromPandasWithIndex(frame) ==
    [kind     |-> "Table",
     schema   |-> [c \in DOMAIN frame.columns |->
                      [name |-> frame.columns[c].name,
                       type |-> ArrowType(frame.columns[c].pytype)]]
                  \o <<[name |-> "__index_level_0__", type |-> "int64"]>>,
     columns  |-> [c \in DOMAIN frame.columns |-> frame.columns[c].values]
                  \o <<[i \in 1..frame.nrows |-> i - 1]>>,
     num_rows |-> frame.nrows]

\* pa.Table.from_pandas(df): one column per DataFrame column, in order; the
\* default RangeIndex is kept as metadata, not as a column.
FromPandas(frame) ==
    [kind     |-> "Table",
     schema   |-> [c \in DOMAIN frame.columns |->
                      [name |-> frame.columns[c].name,
                       type |-> ArrowType(frame.columns[c].pytype)]],
     columns  |-> [c \in DOMAIN frame.columns |-> frame.columns[c].values],
     num_rows |-> frame.nrows]

\* ------------------------------------------------------------- filesystem
Absent == [kind |-> "absent"]

IsDir == [kind |-> "dir"]

\* What an interrupted write leaves behind.
Partial == [kind |-> "partial"]

\* A Parquet file left at the output path by something else.
OldFile ==
    [kind |-> "parquet", compression |-> "gzip",
     schema |-> <<[name |-> "customer_id", type |-> "string"]>>,
     columns |-> <<<<"CUST9999">>>>, num_rows |-> 1]

\* A write that appends the table to a Parquet file already at the path.
WriteTableAppend(old, t, codec) ==
    IF old.kind = "parquet"
    THEN [kind |-> "parquet", compression |-> codec, schema |-> t.schema,
          columns |-> old.columns \o t.columns,
          num_rows |-> old.num_rows + t.num_rows]
    ELSE [kind |-> "parquet", compression |-> codec,
          schema |-> t.schema, columns |-> t.columns, num_rows |-> t.num_rows]

\* pq.write_table(table, output_file, compression=...): the file at the path
\* is created or truncated and holds the table alone.
WriteTable(old, t, codec) ==
    [kind |-> "parquet", compression |-> codec,
     schema |-> t.schema, columns |-> t.columns, num_rows |-> t.num_rows]

ScriptFiles ==
    { <<"repo", "scripts", "generate_sample_data.py">>,
      <<"srv", "demo", "scripts", "generate_sample_data.py">> }

\* The states <project_root>/data and the output path can be in before a
\* run: something is at the output path only inside an existing directory.
InitialFs ==
    { [data_dir |-> "absent", file |-> Absent],
      [data_dir |-> "file",   file |-> Absent],
      [data_dir |-> "dir",    file |-> Absent],
      [data_dir |-> "dir",    file |-> OldFile],
      [data_dir |-> "dir",    file |-> Partial],
      [data_dir |-> "dir",    file |-> IsDir] }

\* ------------------------------------------------------------ the process
NewRun(f) ==
    [before |-> f, status |-> -1, stdout |-> <<>>, ret |-> <<>>, after |-> f]

Init ==
    /\ pc = "import_pandas"
    /\ scriptFile \in ScriptFiles
    /\ fs \in InitialFs
    /\ data = <<>>
    /\ df = NoValue
    /\ table = NoValue
    /\ output_file = <<>>
    /\ stdout = <<>>
    /\ stderr = <<>>
    /\ exc = NoExc
    /\ ret = <<>>
    /\ exitStatus = -1
    /\ steps = <<>>
    /\ runs = 1
    /\ runlog = <<NewRun(fs)>>

locals == <<data, df, table, output_file, ret>>

\* A statement at position `at` either completes and moves to `next`, or
\* raises `e` there.
Goto(next) == pc' = next /\ exc' = exc

Raise(e, handler) == pc' = handler /\ exc' = e

\* The process ends with `status`; the outcome of the run is recorded.
Exit(status, out) ==
    /\ pc' = "exited"
    /\ exitStatus' = status
    /\ runlog' = [runlog EXCEPT ![runs] =
                    [@ EXCEPT !.status = status, !.stdout = out,
                              !.ret = ret, !.after = fs]]

\* Line 11: import pandas as pd.  Outside any try block.
ImportPandas ==
    /\ pc = "import_pandas"
    /\ \E installed \in BOOLEAN :
         IF installed THEN Goto("import_pyarrow")
         ELSE Raise([cls |-> "ModuleNotFoundError",
                     msg |-> "No module named 'pandas'"], "uncaught")
    /\ UNCHANGED <<scriptFile, fs, locals, stdout, stderr, exitStatus, steps,
                   runs, runlog>>

\* Line 12: import pyarrow as pa.
ImportPyarrow ==
    /\ pc = "import_pyarrow"
    /\ \E installed \in BOOLEAN :
         IF installed THEN Goto("import_parquet")
         ELSE Raise([cls |-> "ModuleNotFoundError",
                     msg |-> "No module named 'pyarrow'"], "uncaught")
    /\ UNCHANGED <<scriptFile, fs, locals, stdout, stderr, exitStatus, steps,
                   runs, runlog>>

\* Lines 13-15: import pyarrow.parquet as pq, then the standard library
\* imports, which always load.
ImportParquet ==
    /\ pc = "import_parquet"
    /\ \E built \in BOOLEAN :
         IF built THEN Goto("main")
         ELSE Raise([cls |-> "ImportError",
                     msg |-> "cannot import name 'parquet' from 'pyarrow'"],
                    "uncaught")
    /\ UNCHANGED <<scriptFile, fs, locals, stdout, stderr, exitStatus, steps,
                   runs, runlog>>

\* An exception no handler encloses: the interpreter prints the traceback
\* to standard error and the process ends with status 1.
Uncaught ==
    /\ pc = "uncaught"
    /\ stderr' = stderr \o << "Traceback (most recent call last):",
                              exc.cls \o ": " \o exc.msg >>
    /\ Exit(1, stdout)
    /\ UNCHANGED <<scriptFile, fs, locals, stdout, exc, steps, runs>>

\* Lines 90-92: the try block is entered and generate_sample_data() called.
Main ==
    /\ pc = "main"
    /\ Goto("build_data")
    /\ UNCHANGED <<scriptFile, fs, locals, stdout, stderr, exitStatus, steps,
                   runs, runlog>>

\* ------------------------------------------------- generate_sample_data()
\* Lines 70-72: script_dir, project_root, data_dir.
DataDir == Div(Parent(Parent(scriptFile)), "data")

\* Lines 21-62: the dict literal is evaluated.
BuildData ==
    /\ pc = "build_data"
    /\ data' = DataLiteral
    /\ steps' = Append(steps, "build")
    /\ Goto("frame")
    /\ UNCHANGED <<scriptFile, fs, df, table, output_file, ret, stdout, stderr,
                   exitStatus, runs, runlog>>

\* Line 64: df = pd.DataFrame(data).
MakeFrame ==
    /\ pc = "frame"
    /\ steps' = Append(steps, "frame")
    /\ \E fits \in BOOLEAN :
         IF DataFrameFails(data)
         THEN /\ Raise([cls |-> "ValueError",
                        msg |-> "All arrays must be of the same length"], "raised")
              /\ df' = df
         ELSE IF ~fits
         THEN /\ Raise([cls |-> "MemoryError", msg |-> ""], "raised")
              /\ df' = df
         ELSE /\ Goto("table")
              /\ df' = DataFrame(data)
    /\ UNCHANGED <<scriptFile, fs, data, table, output_file, ret, stdout, stderr,
                   exitStatus, runs, runlog>>

\* Line 67: table = pa.Table.from_pandas(df).  pyarrow loads its pandas
\* support on first use and raises ImportError when it cannot.
MakeTable ==
    /\ pc = "table"
    /\ steps' = Append(steps, "table")
    /\ \E compat \in BOOLEAN :
         IF compat
         THEN /\ Goto("mkdir")
              /\ table' = FromPandas(df)
         ELSE /\ Raise([cls |-> "ImportError",
                        msg |-> "pyarrow requires pandas 1.0.0 or above"], "raised")
              /\ table' = table
    /\ UNCHANGED <<scriptFile, fs, data, df, output_file, ret, stdout, stderr,
                   exitStatus, runs, runlog>>

\* mkdir() without exist_ok: an existing directory raises too.
MkdirNotExistOk ==
    /\ pc = "mkdir"
    /\ steps' = Append(steps, "mkdir")
    /\ \E writable \in BOOLEAN :
         CASE fs.data_dir \in {"dir", "file"} ->
                /\ Raise([cls |-> "FileExistsError",
                          msg |-> "[Errno 17] File exists: '"
                                  \o PathStr(DataDir) \o "'"], "raised")
                /\ fs' = fs
           [] fs.data_dir = "absent" /\ writable ->
                /\ Goto("write")
                /\ fs' = [fs EXCEPT !.data_dir = "dir"]
           [] fs.data_dir = "absent" /\ ~writable ->
                /\ Raise([cls |-> "PermissionError",
                          msg |-> "[Errno 13] Permission denied: '"
                                  \o PathStr(DataDir) \o "'"], "raised")
                /\ fs' = fs
    /\ UNCHANGED <<scriptFile, locals, stdout, stderr, exitStatus, runs, runlog>>

\* Lines 70-73: data_dir.mkdir(exist_ok=True).
Mkdir ==
    /\ pc = "mkdir"
    /\ steps' = Append(steps, "mkdir")
    /\ \E writable \in BOOLEAN :
         CASE fs.data_dir = "dir" ->
                /\ Goto("write")
                /\ fs' = fs
           [] fs.data_dir = "file" ->
                /\ Raise([cls |-> "FileExistsError",
                          msg |-> "[Errno 17] File exists: '"
                                  \o PathStr(DataDir) \o "'"], "raised")
                /\ fs' = fs
           [] fs.data_dir = "absent" /\ writable ->
                /\ Goto("write")
                /\ fs' = [fs EXCEPT !.data_dir = "dir"]
           [] fs.data_dir = "absent" /\ ~writable ->
                /\ Raise([cls |-> "PermissionError",
                          msg |-> "[Errno 13] Permission denied: '"
                                  \o PathStr(DataDir) \o "'"], "raised")
                /\ fs' = fs
    /\ UNCHANGED <<scriptFile, locals, stdout, stderr, exitStatus, runs, runlog>>

\* A write whose failure is swallowed: the summary follows all the same.
WriteSwallowsError ==
    /\ pc = "write"
    /\ steps' = Append(steps, "write")
    /\ output_file' = Div(DataDir, "sales_sample.parquet")
    /\ \E space \in BOOLEAN :
         CASE fs.file.kind = "dir" ->
                /\ Goto("print_banner")
                /\ fs' = fs
           [] fs.file.kind # "dir" /\ space ->
                /\ Goto("print_banner")
                /\ fs' = [fs EXCEPT !.file = WriteTable(fs.file, table, "snappy")]
           [] fs.file.kind # "dir" /\ ~space ->
                /\ Goto("print_banner")
                /\ fs' = [fs EXCEPT !.file = Partial]
    /\ UNCHANGED <<scriptFile, data, df, table, ret, stdout, stderr, exitStatus,
                   runs, runlog>>

\* Lines 75-78: output_file is set and the table written to it.
Write ==
    /\ pc = "write"
    /\ steps' = Append(steps, "write")
    /\ output_file' = Div(DataDir, "sales_sample.parquet")
    /\ \E space \in BOOLEAN :
         CASE fs.file.kind = "dir" ->
                /\ Raise([cls |-> "IsADirectoryError",
                          msg |-> "[Errno 21] Failed to open local file '"
                                  \o PathStr(output_file') \o "'"], "raised")
                /\ fs' = fs
           [] fs.file.kind # "dir" /\ space ->
                /\ Goto("print_banner")
                /\ fs' = [fs EXCEPT !.file = WriteTable(fs.file, table, "snappy")]
           [] fs.file.kind # "dir" /\ ~space ->
                /\ Raise([cls |-> "OSError",
                          msg |-> "[Errno 28] No space left on device"], "raised")
                /\ fs' = [fs EXCEPT !.file = Partial]
    /\ UNCHANGED <<scriptFile, data, df, table, ret, stdout, stderr, exitStatus,
                   runs, runlog>>

\* print(...): the text, split at its newlines, is appended to stdout.
PrintLines(lines, next) ==
    /\ stdout' = stdout \o lines
    /\ Goto(next)
    /\ UNCHANGED <<scriptFile, fs, locals, stderr, exitStatus, runs, runlog>>

\* Line 80
PrintBanner ==
    /\ pc = "print_banner"
    /\ steps' = Append(steps, "summary")
    /\ PrintLines(<<"Sample data generated successfully!">>, "print_file")

\* Line 81
PrintFile ==
    /\ pc = "print_file"
    /\ steps' = steps
    /\ PrintLines(<<"File: " \o PathStr(output_file)>>, "print_records")

\* Line 82
PrintRecords ==
    /\ pc = "print_records"
    /\ steps' = steps
    /\ PrintLines(<<"Records: " \o IntStr(DfLen(df))>>, "print_heading")

\* Line 83 without the leading newline of its text.
PrintHeadingNoNewline ==
    /\ pc = "print_heading"
    /\ steps' = steps
    /\ PrintLines(<<"Data summary:">>, "print_apac")

\* Line 83: the text starts with a newline.
PrintHeading ==
    /\ pc = "print_heading"
    /\ steps' = steps
    /\ PrintLines(<<"", "Data summary:">>, "print_apac")

\* Line 84
PrintApac ==
    /\ pc = "print_apac"
    /\ steps' = steps
    /\ PrintLines(<<"  APAC records: " \o IntStr(RegionCount(df, "APAC"))>>,
             "print_emea")

\* Line 85
PrintEmea ==
    /\ pc = "print_emea"
    /\ steps' = steps
    /\ PrintLines(<<"  EMEA records: " \o IntStr(RegionCount(df, "EMEA"))>>,
             "print_amer")

\* Line 86
PrintAmer ==
    /\ pc = "print_amer"
    /\ steps' = steps
    /\ PrintLines(<<"  AMER records: " \o IntStr(RegionCount(df, "AMER"))>>,
             "return")

\* Line 88: return output_file.
Return ==
    /\ pc = "return"
    /\ ret' = output_file
    /\ steps' = Append(steps, "return")
    /\ Goto("end")
    /\ UNCHANGED <<scriptFile, fs, data, df, table, output_file, stdout, stderr,
                   exitStatus, runs, runlog>>

\* ------------------------------------------------------------- __main__
\* Line 92 completes without an exception; the script ends, status 0.
Finish ==
    /\ pc = "end"
    /\ Exit(0, stdout)
    /\ UNCHANGED <<scriptFile, fs, locals, stdout, stderr, exc, steps, runs>>

ImportErrorText ==
    << "Error: Required Python packages not installed.",
       "Please install: pip install pandas pyarrow" >>

\* Lines 93-96: except ImportError.
HandleImportError ==
    /\ pc = "raised"
    /\ IsInstance(exc, "ImportError")
    /\ stdout' = stdout \o ImportErrorText
    /\ Exit(1, stdout')
    /\ UNCHANGED <<scriptFile, fs, locals, stderr, exc, steps, runs>>

\* The handler without its sys.exit(1): the script ends normally.
HandleExceptionNoExit ==
    /\ pc = "raised"
    /\ ~IsInstance(exc, "ImportError")
    /\ IsInstance(exc, "Exception")
    /\ stdout' = Append(stdout, "Error generating sample data: " \o exc.msg)
    /\ Exit(0, stdout')
    /\ UNCHANGED <<scriptFile, fs, locals, stderr, exc, steps, runs>>

\* Lines 97-99: except Exception, tried after the ImportError clause.
HandleException ==
    /\ pc = "raised"
    /\ ~IsInstance(exc, "ImportError")
    /\ IsInstance(exc, "Exception")
    /\ stdout' = Append(stdout, "Error generating sample data: " \o exc.msg)
    /\ Exit(1, stdout')
    /\ UNCHANGED <<scriptFile, fs, locals, stderr, exc, steps, runs>>

\* The script is run again, as a new process on the same filesystem.
Rerun ==
    /\ pc = "exited"
    /\ runs < MaxRuns
    /\ runs' = runs + 1
    /\ runlog' = Append(runlog, NewRun(fs))
    /\ pc' = "import_pandas"
    /\ data' = <<>>
    /\ df' = NoValue
    /\ table' = NoValue
    /\ output_file' = <<>>
    /\ stdout' = <<>>
    /\ stderr' = <<>>
    /\ exc' = NoExc
    /\ ret' = <<>>
    /\ exitStatus' = -1
    /\ steps' = <<>>
    /\ UNCHANGED <<scriptFile, fs>>

Next ==
    \/ ImportPandas
    \/ ImportPyarrow
    \/ ImportParquet
    \/ Uncaught
    \/ Main
    \/ BuildData
    \/ MakeFrame
    \/ MakeTable
    \/ Mkdir
    \/ Write
    \/ PrintBanner
    \/ PrintFile
    \/ PrintRecords
    \/ PrintHeading
    \/ PrintApac
    \/ PrintEmea
    \/ PrintAmer
    \/ Return
    \/ Finish
    \/ HandleImportError
    \/ HandleException
    \/ Rerun

Spec == Init /\ [][Next]_vars

\* ================================================================ claims
SeqRange(s) == {s[i] : i \in DOMAIN s}

IsPrefix(a, b) == Len(a) <= Len(b) /\ SubSeq(b, 1, Len(a)) = a

Occurrences(s, v) == Cardinality({i \in DOMAIN s : s[i] = v})

Succeeded == pc = "exited" /\ exitStatus = 0

Banner == "Sample data generated successfully!"

FullOrder == <<"build", "frame", "table", "mkdir", "write", "summary", "return">>

ColumnNames ==
    << "customer_id", "customer_name", "customer_email", "ssn",
       "sales_region", "sales_amount", "sale_date" >>

\* C1: when pandas / pyarrow cannot be loaded by the module-level imports,
\* the process exits with status 1, the installation instruction has been
\* printed, and no generation step has been attempted or has had an effect.
C1_MissingLibraryPrintsInstructions ==
    (pc = "exited" /\ IsInstance(exc, "ImportError") /\ steps = <<>>) =>
        /\ exitStatus = 1
        /\ "Please install: pip install pandas pyarrow" \in SeqRange(stdout)
        /\ data = <<>>
        /\ fs = runlog[runs].before

\* C2 as stated: the sales_region column holds 11 APAC, 5 EMEA and 4 AMER
\* values, and those are the counts the summary prints.
C2_Original ==
    /\ df.kind = "DataFrame" =>
         /\ Occurrences(DfColumn(df, "sales_region"), "APAC") = 11
         /\ Occurrences(DfColumn(df, "sales_region"), "EMEA") = 5
         /\ Occurrences(DfColumn(df, "sales_region"), "AMER") = 4
    /\ Succeeded =>
         /\ "  APAC records: 11" \in SeqRange(stdout)
         /\ "  EMEA records: 5" \in SeqRange(stdout)
         /\ "  AMER records: 4" \in SeqRange(stdout)

\* C2 amended: the sales_region column of the 20 assembled records holds
\* exactly 8 APAC, 6 EMEA and 6 AMER values, and these are the three counts
\* the summary prints for APAC, EMEA and AMER.
C2_RegionCounts ==
    /\ df.kind = "DataFrame" =>
         /\ Len(DfColumn(df, "sales_region")) = 20
         /\ Occurrences(DfColumn(df, "sales_region"), "APAC") = 8
         /\ Occurrences(DfColumn(df, "sales_region"), "EMEA") = 6
         /\ Occurrences(DfColumn(df, "sales_region"), "AMER") = 6
    /\ Succeeded =>
         /\ "  APAC records: 8" \in SeqRange(stdout)
         /\ "  EMEA records: 6" \in SeqRange(stdout)
         /\ "  AMER records: 6" \in SeqRange(stdout)

C2_Witness ==
    /\ Succeeded
    /\ df.kind = "DataFrame"
    /\ "  APAC records: 8" \in SeqRange(stdout)

\* C3: in every successful run the three printed region counts sum to the
\* printed total, which is 20, and every sales_region value of the
\* assembled data is one of APAC, EMEA, AMER.
C3_CountsSumToTotal ==
    /\ df.kind = "DataFrame" =>
         SeqRange(DfColumn(df, "sales_region")) \subseteq {"APAC", "EMEA", "AMER"}
    /\ Succeeded =>
         \E a \in 0..20, e \in 0..20, m \in 0..20 :
            /\ a + e + m = 20
            /\ "Records: " \o IntStr(a + e + m) \in SeqRange(stdout)
            /\ "  APAC records: " \o IntStr(a) \in SeqRange(stdout)
            /\ "  EMEA records: " \o IntStr(e) \in SeqRange(stdout)
            /\ "  AMER records: " \o IntStr(m) \in SeqRange(stdout)

C3_Witness ==
    /\ Succeeded
    /\ "Records: 20" \in SeqRange(stdout)
    /\ Len(stdout) >= 3

\* C4: the customer_id column is CUST0001, CUST0002, ..., CUST0020: 20
\* values, each CUST followed by the 4-digit zero-padded row number starting
\* at 1, pairwise distinct, in row order.
C4_CustomerIds ==
    data # <<>> =>
        LET ids == data[1].values
        IN  /\ data[1].name = "customer_id"
            /\ Len(ids) = 20
            /\ \A k \in DOMAIN ids :
                 ids[k] = "CUST" \o DigitChar(k \div 1000)
                                 \o DigitChar((k \div 100) % 10)
                                 \o DigitChar((k \div 10) % 10)
                                 \o DigitChar(k % 10)
            /\ ids[1] = "CUST0001" /\ ids[9] = "CUST0009"
            /\ ids[10] = "CUST0010" /\ ids[20] = "CUST0020"
            /\ Cardinality(SeqRange(ids)) = 20

C4_Witness ==
    /\ Succeeded
    /\ fs.file.kind = "parquet"
    /\ fs.file.columns[1] = data[1].values
    /\ fs.file.columns[1][20] = "CUST0020"

\* C5: the table that is written has exactly the 7 columns customer_id,
\* customer_name, customer_email, ssn, sales_region, sales_amount, sale_date,
\* in that order, and exactly 20 rows; every literal sequence has length 20,
\* row i holds position i of every sequence, and "Records: 20" is printed.
C5_TableShape ==
    /\ data # <<>> => \A c \in DOMAIN data : Len(data[c].values) = 20
    /\ table.kind = "Table" =>
         /\ [c \in DOMAIN table.schema |-> table.schema[c].name] = ColumnNames
         /\ table.num_rows = 20
         /\ Len(table.columns) = 7
         /\ \A c \in 1..7 : \A i \in 1..20 :
              table.columns[c][i] = data[c].values[i]
    /\ Succeeded =>
         /\ fs.file.schema = table.schema
         /\ fs.file.columns = table.columns
         /\ fs.file.num_rows = 20
         /\ stdout[3] = "Records: 20"

C5_Witness ==
    /\ Succeeded
    /\ Len(fs.file.schema) = 7
    /\ fs.file.schema[7].name = "sale_date"
    /\ fs.file.num_rows = 20

C7_LinearOrder ==
    /\ IsPrefix(steps, FullOrder)
    /\ Banner \in SeqRange(stdout) =>
         /\ IsPrefix(SubSeq(FullOrder, 1, 6), steps)
         /\ fs.file.kind = "parquet"
         /\ fs.file.columns = table.columns
    /\ exitStatus = 1 => Banner \notin SeqRange(stdout)
    /\ exitStatus = 0 =>
         /\ steps = FullOrder
         /\ Len(stdout) = 8
         /\ stdout[1] = Banner
         /\ ret = output_file
         /\ ret # <<>>

C7_Witness ==
    /\ Succeeded
    /\ steps = FullOrder
    /\ stdout[1] = Banner

\* C8: after a successful run the data directory and the output file exist,
\* whether or not the directory existed before; a directory present before
\* the run makes the directory step raise nothing and is still there.
C8_DirectoryAndFileExist ==
    /\ Succeeded => fs.data_dir = "dir" /\ fs.file.kind = "parquet"
    /\ runlog[runs].before.data_dir = "dir" =>
         /\ fs.data_dir = "dir"
         /\ ~(pc = "raised" /\ steps # <<>> /\ steps[Len(steps)] = "mkdir")

C8_Witness ==
    /\ Succeeded
    /\ runs = 2
    /\ runlog[1].status = 0
    /\ runlog[1].before.data_dir = "absent"
    /\ runlog[2].before.data_dir = "dir"
    /\ fs.data_dir = "dir"
    /\ fs.file.kind = "parquet"

\* C9: every successful run leaves the same file content, whatever was at
\* the output path before (nothing, another file, a partial file, its own
\* earlier output), returns the same path and prints the same summary.
C9_Idempotent ==
    \A i \in DOMAIN runlog : \A j \in DOMAIN runlog :
        (runlog[i].status = 0 /\ runlog[j].status = 0) =>
            /\ runlog[i].after.file = runlog[j].after.file
            /\ runlog[i].after.file.num_rows = 20
            /\ runlog[i].after.file.compression = "snappy"
            /\ Len(runlog[i].after.file.columns) = 7
            /\ runlog[i].ret = runlog[j].ret
            /\ runlog[i].stdout = runlog[j].stdout

C9_Witness ==
    /\ runs = 2
    /\ runlog[1].status = 0
    /\ runlog[2].status = 0
    /\ runlog[1].before.file = OldFile
    /\ runlog[2].before.file = runlog[1].after.file
    /\ runlog[2].after.file = runlog[1].after.file

\* C10 as stated: on success the output is the banner, the file path, the
\* record count, one blank line and then directly the three region lines.
C10_Original ==
    Succeeded =>
        /\ Len(stdout) = 7
        /\ stdout[1] = Banner
        /\ stdout[4] = ""
        /\ \E n \in 0..20 : stdout[5] = "  APAC records: " \o IntStr(n)

\* C10 amended: on success the output is exactly the banner, the file path,
\* the record count, one blank line, the heading "Data summary:", then the
\* three region lines labelled APAC, EMEA, AMER in that order.
C10_ConsoleOutput ==
    Succeeded =>
        /\ Len(stdout) = 8
        /\ stdout[1] = Banner
        /\ stdout[2] = "File: " \o PathStr(ret)
        /\ stdout[2] \in {"File: /repo/data/sales_sample.parquet",
                          "File: /srv/demo/data/sales_sample.parquet"}
        /\ stdout[3] = "Records: 20"
        /\ stdout[4] = ""
        /\ stdout[5] = "Data summary:"
        /\ \E n \in 0..20 : stdout[6] = "  APAC records: " \o IntStr(n)
        /\ \E n \in 0..20 : stdout[7] = "  EMEA records: " \o IntStr(n)
        /\ \E n \in 0..20 : stdout[8] = "  AMER records: " \o IntStr(n)

C10_Witness ==
    /\ Succeeded
    /\ Len(stdout) = 8
    /\ stdout[5] = "Data summary:"
====
